---- MODULE Spec2Model ----
(***************************************************************************)
(* Model of kodicontroller.KodiController: the decorators that resolve the *)
(* implicit target of a command, the thumbnail cache and the resume        *)
(* percentage normaliser.                                                  *)
(*                                                                         *)
(* Strings are sequences of one-character strings.  Python's None is the   *)
(* string "None"; an attribute that was never assigned is "unset".         *)
(***************************************************************************)
EXTENDS Integers, Sequences, FiniteSets, TLC

VARIABLES server, auth, cache_thumbnail_dir,   \* fields of the controller
          dirState, files,                     \* the filesystem at the cache path
          result,                              \* outcome of the last call
          resolved,                            \* history: digests already returned
          lastTarget,                          \* history: id an earlier command used
          pc, tref, written, tret            \* two concurrent GetThumbnail calls

vars == <<server, auth, cache_thumbnail_dir, dirState, files, result,
          resolved, lastTarget, pc, tref, written, tret>>

(***************************************************************************)
(* Bounds                                                                  *)
(***************************************************************************)
ImageLen == 2      \* chunks in one image body
MaxRecords == 2    \* records in one response list
MaxVal == 2        \* largest counter / position / total in a record

(***************************************************************************)
(* Strings                                                                 *)
(***************************************************************************)
RECURSIVE lstrip(_)
lstrip(s) == IF s # <<>> /\ Head(s) = "/" THEN lstrip(Tail(s)) ELSE s

RECURSIVE rstrip(_)
rstrip(s) ==
  IF s # <<>> /\ s[Len(s)] = "/" THEN rstrip(SubSeq(s, 1, Len(s) - 1)) ELSE s

\* thumbnail.strip('/')
strip(s) == rstrip(lstrip(s))

\* str.rfind, 1-based; 0 when the character does not occur
rfind(s, c) ==
  LET hits == {i \in 1..Len(s) : s[i] = c}
  IN  IF hits = {} THEN 0 ELSE CHOOSE i \in hits : \A j \in hits : j <= i

\* os.path.splitext(p)[1]: the extension starts at the last dot of the last
\* path component, unless that component consists of leading dots only
splitext(p) ==
  LET sepIndex == rfind(p, "/")
      dotIndex == rfind(p, ".")
  IN  IF dotIndex > sepIndex
         /\ \E filenameIndex \in (sepIndex + 1)..(dotIndex - 1) :
               p[filenameIndex] # "."
      THEN SubSeq(p, dotIndex, Len(p))
      ELSE <<>>

ImageExts == {<<".", "j", "p", "g">>, <<".", "p", "n", "g">>}

\* hashlib.md5(s).hexdigest(): a deterministic, collision-free map of the
\* reference onto file-name-safe characters
HexOf(c) ==
  CASE c = "/" -> "0"
    [] c = "." -> "1"
    [] c = "a" -> "2"
    [] c = "b" -> "3"
    [] c = "j" -> "4"
    [] c = "p" -> "5"
    [] c = "g" -> "6"
    [] c = "n" -> "7"
    [] c = "i" -> "8"
    [] c = "f" -> "9"
    [] OTHER   -> "e"

md5(s) == [i \in 1..Len(s) |-> HexOf(s[i])]

\* urllib.parse.quote_plus: '/' is percent-encoded, letters and dots are kept
RECURSIVE quote_plus(_)
quote_plus(s) ==
  IF s = <<>> THEN <<>>
  ELSE (IF Head(s) = "/" THEN <<"%", "2", "F">> ELSE <<Head(s)>>)
       \o quote_plus(Tail(s))

ServerUrl == <<"h", "/">>

\* self.server.url + 'image/' + quote_plus(thumbnail)
ImageUrl(thumbnail) == ServerUrl \o <<"i", "/">> \o quote_plus(thumbnail)

\* the body the server streams for a url, in chunks
ServerImage(url) == [i \in 1..ImageLen |-> <<url, i>>]

(***************************************************************************)
(* Inputs                                                                  *)
(***************************************************************************)
Refs == { <<>>,
          <<"a", ".", "j", "p", "g">>,
          <<"/", "a", ".", "j", "p", "g", "/">>,
          <<"b", ".", "p", "n", "g">>,
          <<"a", ".", "g", "i", "f">>,
          <<"a", ".", "j", "p", "g", "/", "b">>,
          <<".", "j", "p", "g">> }

IsImageRef(r) == splitext(strip(r)) \in ImageExts

CacheNames == {md5(strip(r)) : r \in {x \in Refs : IsImageRef(x)}}

NoFile == [exists |-> FALSE, data |-> <<>>]

\* how the download of one call goes
FetchOutcomes ==
  {[kind |-> "ok", n |-> 0], [kind |-> "get_fail", n |-> 0],
   [kind |-> "open_fail", n |-> 0]}
  \cup {[kind |-> "copy_fail", n |-> k] : k \in 0..(ImageLen - 1)}

(***************************************************************************)
(* Thumbnail cache                                                         *)
(***************************************************************************)
NoExc == "none"
EmptyId == <<>>       \* the empty string ''

\* a lookup that never finds the file
PathExists_Never(ds, fl, name) == FALSE

\* os.path.exists(imgPath): a path below a missing directory, or below a
\* regular file, does not exist
PathExists(ds, fl, name) == ds = "dir" /\ fl[name].exists

\* a directory check that puts a directory in place of whatever is at the path
EnsureDir_Replace(ds) == IF ds # "dir" THEN "dir" ELSE ds

\* lines 122-123: create the cache directory when nothing is at its path
\* (the parent of the cache path is taken to exist)
EnsureDir(ds) == IF ds = "absent" THEN "dir" ELSE ds

\* a store that stops after the first chunk and reports success
StoreImage_Truncated(fl, name, url, fo) ==
  [exc |-> NoExc,
   files |-> [fl EXCEPT ![name] =
                [exists |-> TRUE, data |-> SubSeq(ServerImage(url), 1, 1)]],
   ops |-> <<"get", "open", "write">>]

\* lines 128-133: requests.get, open(imgPath, 'wb'), shutil.copyfileobj.
\* open() truncates or creates the file; the copy appends chunk by chunk and
\* stops where the stream or the disk fails.
StoreImage(fl, name, url, fo) ==
  CASE fo.kind = "get_fail"  -> [exc |-> "RequestException", files |-> fl,
                                 ops |-> <<"get">>]
    [] fo.kind = "open_fail" -> [exc |-> "OSError", files |-> fl,
                                 ops |-> <<"get", "open">>]
    [] fo.kind = "copy_fail" ->
         [exc |-> "IOError",
          files |-> [fl EXCEPT ![name] =
                       [exists |-> TRUE, data |-> SubSeq(ServerImage(url), 1, fo.n)]],
          ops |-> <<"get", "open", "write">>]
    [] OTHER ->
         [exc |-> NoExc,
          files |-> [fl EXCEPT ![name] =
                       [exists |-> TRUE, data |-> ServerImage(url)]],
          ops |-> <<"get", "open", "write">>]

\* line 135, or the exception of the download
Stored(name, pre, st) ==
  [exc |-> st.exc, id |-> IF st.exc = NoExc THEN name ELSE EmptyId,
   dirState |-> "dir", files |-> st.files, ops |-> pre \o st.ops]

\* a lookup that downloads whether or not the file is there
FetchIfMissing_NoLookup(ds, fl, thumbnail, fo) ==
  Stored(md5(thumbnail), <<"exists", "exists_dir", "isdir">>,
         StoreImage(fl, md5(thumbnail), ImageUrl(thumbnail), fo))

\* lines 119-135: the cache lookup and, on a miss, the download
FetchIfMissing(ds, fl, thumbnail, fo) ==
  LET name == md5(thumbnail) IN
  IF PathExists(ds, fl, name)
  THEN [exc |-> NoExc, id |-> name, dirState |-> ds, files |-> fl,
        ops |-> <<"exists">>]
  ELSE LET ds2 == EnsureDir(ds)
           pre == <<"exists", "exists_dir">>
                  \o (IF ds = "absent" THEN <<"mkdir">> ELSE <<>>) \o <<"isdir">>
       IN  IF ds2 # "dir"
           THEN [exc |-> "Exception", id |-> EmptyId, dirState |-> ds2,
                 files |-> fl, ops |-> pre]
           ELSE Stored(name, pre, StoreImage(fl, name, ImageUrl(thumbnail), fo))

\* lines 105-135.  self.auth is assigned by SetServer only: reading it on a
\* controller that never had a server set raises AttributeError.
GetThumbnail(dir, au, ds, fl, thumbnail, fo) ==
  LET quiet(e, i) == [exc |-> e, id |-> i, dirState |-> ds, files |-> fl,
                      ops |-> <<>>]
  IN  IF dir = "None" THEN quiet(NoExc, EmptyId)
      ELSE IF au = "unset" THEN quiet("AttributeError", EmptyId)
      ELSE IF au = "None" THEN quiet(NoExc, EmptyId)
      ELSE IF splitext(strip(thumbnail)) \notin ImageExts
           THEN quiet(NoExc, EmptyId)
           ELSE FetchIfMissing(ds, fl, strip(thumbnail), fo)

(***************************************************************************)
(* Media records                                                           *)
(***************************************************************************)
NoKey == -1      \* the record has no such key
Unbound == -2    \* a local variable that was never assigned

NoPct == [num |-> 0, den |-> 0]      \* no 'percentage' key
NoResume == [present |-> FALSE, total |-> NoKey, position |-> NoKey,
             percentage |-> NoPct]
\* item['resume'] = {}
EmptyResume == [NoResume EXCEPT !.present = TRUE]

Item(t, r, w, e) ==
  [thumbnail |-> t, resume |-> r, watchedepisodes |-> w, episode |-> e]

\* a record that carries a thumbnail reference only
Thumb(t) == Item(t, NoResume, NoKey, NoKey)

(***************************************************************************)
(* Resume percentage                                                       *)
(***************************************************************************)
\* the quotient without the test for a zero total
Percent_NoZeroCheck(currentValue, maxValue) ==
  [num |-> 100 * currentValue, den |-> maxValue]

\* lines 165-168; the quotient 100.0 * currentValue / maxValue is kept as a
\* fraction
Percent(currentValue, maxValue) ==
  IF maxValue = 0 THEN [num |-> 0, den |-> 1]
  ELSE [num |-> 100 * currentValue, den |-> maxValue]

\* lines 150-163: the try / except KeyError / else part for one item.
\* loc holds the function's locals, which live on from one item to the next.
ReadProgress(item, loc) ==
  IF item.resume.present
  THEN \* else: clause, an exception here is not caught
       IF item.resume.total = NoKey
       THEN [item |-> item, loc |-> loc, pending |-> "KeyError"]
       ELSE LET l1 == [loc EXCEPT !.maxValue = item.resume.total]
            IN  IF item.resume.position = NoKey
                THEN [item |-> item, loc |-> l1, pending |-> "KeyError"]
                ELSE [item |-> item,
                      loc |-> [l1 EXCEPT !.currentValue = item.resume.position],
                      pending |-> NoExc]
  ELSE \* except KeyError: clause
       LET l1 == IF item.watchedepisodes = NoKey
                 THEN [loc EXCEPT !.maxValue = 0]
                 ELSE IF item.episode = NoKey
                      THEN [currentValue |-> item.watchedepisodes, maxValue |-> 0]
                      ELSE [currentValue |-> item.watchedepisodes,
                            maxValue |-> item.episode]
       IN  [item |-> [item EXCEPT !.resume = EmptyResume], loc |-> l1,
            pending |-> NoExc]

\* lines 164-170: the outer finally clause.  Reading a local that was never
\* assigned raises UnboundLocalError, which replaces a pending exception; a
\* pending exception is re-raised once the clause has run.
WritePercent(rd) ==
  IF rd.loc.maxValue = Unbound
     \/ (rd.loc.maxValue # 0 /\ rd.loc.currentValue = Unbound)
  THEN [item |-> rd.item, loc |-> rd.loc, exc |-> "UnboundLocalError"]
  ELSE [item |-> [rd.item EXCEPT !.resume.percentage =
                     Percent(rd.loc.currentValue, rd.loc.maxValue)],
        loc |-> rd.loc, exc |-> rd.pending]

RECURSIVE ResumeLoop(_, _, _)
\* line 149: the item has been mutated in place when its exception leaves
\* the loop
ResumeNext(resumeList, i, r) ==
  IF r.exc # NoExc
  THEN [items |-> [resumeList EXCEPT ![i] = r.item], exc |-> r.exc]
  ELSE ResumeLoop([resumeList EXCEPT ![i] = r.item], i + 1, r.loc)

ResumeLoop(resumeList, i, loc) ==
  IF i > Len(resumeList) THEN [items |-> resumeList, exc |-> NoExc]
  ELSE ResumeNext(resumeList, i, WritePercent(ReadProgress(resumeList[i], loc)))

\* lines 148-170
GetResumePercent(resumeList) ==
  ResumeLoop(resumeList, 1, [currentValue |-> Unbound, maxValue |-> Unbound])

(***************************************************************************)
(* ProcessThumbnails                                                       *)
(***************************************************************************)
\* the download outcome of the i-th record: every download before failAt
\* succeeds, the one at failAt goes as fo says
OutcomeAt(i, failAt, fo) == IF i = failAt THEN fo ELSE [kind |-> "ok", n |-> 0]

AfterOps(ops, rest) == [rest EXCEPT !.ops = ops \o rest.ops]

RECURSIVE ThumbLoop(_, _, _, _, _, _, _, _)
\* line 143: item['thumbnail'] = <what GetThumbnail returned>; an exception
\* of GetThumbnail leaves the loop
ThumbNext(dir, au, list, i, failAt, fo, g) ==
  IF g.exc # NoExc
  THEN [items |-> list, exc |-> g.exc, dirState |-> g.dirState,
        files |-> g.files, ops |-> g.ops]
  ELSE AfterOps(g.ops, ThumbLoop(dir, au, g.dirState, g.files,
                                 [list EXCEPT ![i].thumbnail = g.id],
                                 i + 1, failAt, fo))

ThumbLoop(dir, au, ds, fl, list, i, failAt, fo) ==
  IF i > Len(list)
  THEN [items |-> list, exc |-> NoExc, dirState |-> ds, files |-> fl,
        ops |-> <<>>]
  ELSE ThumbNext(dir, au, list, i, failAt, fo,
                 GetThumbnail(dir, au, ds, fl, list[i].thumbnail,
                              OutcomeAt(i, failAt, fo)))

\* a pass over the records that does not look at the cache directory setting
ProcessThumbnails_Always(dir, au, ds, fl, thumbnailList, failAt, fo) ==
  ThumbLoop(dir, au, ds, fl, thumbnailList, 1, failAt, fo)

\* lines 140-143
ProcessThumbnails(dir, au, ds, fl, thumbnailList, failAt, fo) ==
  IF dir # "None"
  THEN ThumbLoop(dir, au, ds, fl, thumbnailList, 1, failAt, fo)
  ELSE [items |-> thumbnailList, exc |-> NoExc, dirState |-> ds,
        files |-> fl, ops |-> <<>>]

(***************************************************************************)
(* State                                                                   *)
(***************************************************************************)
Callers == {1, 2}

NoId == -1     \* a transport call that carries no player or playlist id

OkFetch == [kind |-> "ok", n |-> 0]

\* the record kept of the last call: its arguments, what the server answered,
\* what the call returned or raised, the transport calls and the filesystem /
\* network operations it made
NoCall ==
  [op |-> "none", arg |-> <<>>, exc |-> NoExc, ret |-> "None", id |-> EmptyId,
   inp |-> <<>>, items |-> <<>>, calls |-> <<>>, ops |-> <<>>, fo |-> OkFetch,
   players |-> <<>>, playlists |-> <<>>, playlistType |-> "", qfault |-> FALSE]

Call(op) == [NoCall EXCEPT !.op = op]

NoFiles == [n \in CacheNames |-> NoFile]

IdleCallers ==
  /\ pc = [c \in Callers |-> "idle"]
  /\ tref = [c \in Callers |-> <<>>]
  /\ written = [c \in Callers |-> 0]
  /\ tret = [c \in Callers |-> [exc |-> NoExc, id |-> EmptyId]]

\* lines 75-79: a controller constructed without a complete server address;
\* the cache path is the constructor's argument, anything may be at that path
Init ==
  /\ server = "None"
  /\ auth = "unset"
  /\ cache_thumbnail_dir \in {"None", "cache"}
  /\ dirState \in {"absent", "dir", "file"}
  /\ files = NoFiles
  /\ result = NoCall
  /\ resolved = {}
  /\ lastTarget = NoId
  /\ IdleCallers

callerVars == <<pc, tref, written, tret>>
fsVars == <<dirState, files>>

(***************************************************************************)
(* Session set-up and the thumbnail cache, called directly                 *)
(***************************************************************************)
\* calls are made one after the other: the caller is between two calls
Idle == result.op = "none"

\* lines 43, 56: the player or playlist id a command handed to its transport
\* call, NoId when it made none with an id
TargetOf(calls) == IF calls = <<>> THEN NoId ELSE calls[Len(calls)].id

\* the caller has taken what the call returned or raised; the id the command
\* used is from now on one of an earlier call
Returned ==
  /\ ~Idle
  /\ result' = NoCall
  /\ lastTarget' = IF TargetOf(result.calls) = NoId THEN lastTarget
                   ELSE TargetOf(result.calls)
  /\ UNCHANGED <<server, auth, cache_thumbnail_dir, fsVars, resolved,
                 callerVars>>

\* lines 92-94
SetServer ==
  /\ Idle
  /\ auth' = "set"
  /\ server' = "Client"
  /\ result' = Call("SetServer")
  /\ UNCHANGED <<cache_thumbnail_dir, fsVars, resolved, callerVars, lastTarget>>

\* lines 99-100
SetThumbnailCache ==
  \E path \in {"None", "cache"} :
    /\ Idle
    /\ cache_thumbnail_dir' = path
    /\ resolved' = IF path = cache_thumbnail_dir THEN resolved ELSE {}
    /\ result' = Call("SetThumbnailCache")
    /\ UNCHANGED <<server, auth, fsVars, callerVars, lastTarget>>

\* the digests a list of processed records carries
IdsOf(before, after) ==
  {after[i].thumbnail : i \in {j \in 1..Len(after) : after[j] # before[j]}}
  \ {EmptyId}

CallGetThumbnail ==
  /\ Idle
  /\ \E thumbnail \in Refs, fo \in FetchOutcomes :
      \E g \in {GetThumbnail(cache_thumbnail_dir, auth, dirState, files,
                             thumbnail, fo)} :
        /\ dirState' = g.dirState
        /\ files' = g.files
        /\ result' = [Call("GetThumbnail") EXCEPT
                        !.arg = thumbnail, !.exc = g.exc, !.id = g.id,
                        !.ret = IF g.exc = NoExc THEN "str" ELSE "None",
                        !.ops = g.ops, !.fo = fo]
        /\ resolved' = resolved \cup ({g.id} \ {EmptyId})
        /\ UNCHANGED <<server, auth, cache_thumbnail_dir, callerVars, lastTarget>>

ThumbItems == {Thumb(r) : r \in {<<"a", ".", "g", "i", "f">>,
                                 <<"a", ".", "j", "p", "g">>,
                                 <<"b", ".", "p", "n", "g">>}}

ThumbLists == UNION {[1..n -> ThumbItems] : n \in 0..MaxRecords}

CallProcessThumbnails ==
  /\ Idle
  /\ \E thumbnailList \in ThumbLists, fo \in FetchOutcomes,
        failAt \in 0..MaxRecords :
    /\ failAt <= Len(thumbnailList)
    /\ (failAt = 0) = (fo = OkFetch)
    /\ \E p \in {ProcessThumbnails(cache_thumbnail_dir, auth, dirState, files,
                                   thumbnailList, failAt, fo)} :
        /\ dirState' = p.dirState
        /\ files' = p.files
        /\ result' = [Call("ProcessThumbnails") EXCEPT
                        !.inp = thumbnailList, !.items = p.items,
                        !.exc = p.exc, !.ops = p.ops, !.fo = fo]
        /\ resolved' = resolved \cup IdsOf(thumbnailList, p.items)
        /\ UNCHANGED <<server, auth, cache_thumbnail_dir, callerVars, lastTarget>>

NextCache ==
  \/ SetServer
  \/ SetThumbnailCache
  \/ CallGetThumbnail
  \/ CallProcessThumbnails
  \/ Returned

SpecCache == Init /\ [][NextCache]_vars

(***************************************************************************)
(* GetResumePercent, called on every list of records                       *)
(***************************************************************************)
Vals == {NoKey} \cup 0..MaxVal

ResumeItems ==
  {Item(<<>>, [EmptyResume EXCEPT !.total = t, !.position = p], NoKey, NoKey) :
     t \in Vals, p \in Vals}
  \cup {Item(<<>>, NoResume, w, e) : w \in Vals, e \in Vals}

ResumeLists == UNION {[1..n -> ResumeItems] : n \in 0..MaxRecords}

InitResume ==
  /\ server = "None"
  /\ auth = "unset"
  /\ cache_thumbnail_dir = "None"
  /\ dirState = "absent"
  /\ files = NoFiles
  /\ \E resumeList \in ResumeLists : result = [NoCall EXCEPT !.inp = resumeList]
  /\ resolved = {}
  /\ lastTarget = NoId
  /\ IdleCallers

CallGetResumePercent ==
  /\ result.op = "none"
  /\ \E g \in {GetResumePercent(result.inp)} :
       result' = [result EXCEPT !.op = "GetResumePercent", !.items = g.items,
                                !.exc = g.exc]
  /\ UNCHANGED <<server, auth, cache_thumbnail_dir, fsVars, resolved,
                 callerVars, lastTarget>>

NextResume == CallGetResumePercent

SpecResume == InitResume /\ [][NextResume]_vars

(***************************************************************************)
(* Two callers inside GetThumbnail at the same time                        *)
(***************************************************************************)
\* the two spellings of one image reference
RaceRefs == {<<"a", ".", "j", "p", "g">>, <<"/", "a", ".", "j", "p", "g", "/">>}

InitConc ==
  /\ server = "Client"
  /\ auth = "set"
  /\ cache_thumbnail_dir = "cache"
  /\ dirState \in {"absent", "dir"}
  /\ files = NoFiles
  /\ result = NoCall
  /\ resolved = {}
  /\ lastTarget = NoId
  /\ IdleCallers

sessionVars ==
  <<server, auth, cache_thumbnail_dir, result, resolved, lastTarget>>

Goto(c, label) == pc' = [pc EXCEPT ![c] = label]

Raise(c, e) ==
  /\ tret' = [tret EXCEPT ![c] = [exc |-> e, id |-> EmptyId]]
  /\ Goto(c, "done")

\* lines 106-117: the checks on the reference and the digest
T_Enter(c) ==
  /\ pc[c] = "idle"
  /\ \E thumbnail \in RaceRefs : tref' = [tref EXCEPT ![c] = strip(thumbnail)]
  /\ Goto(c, "exists")
  /\ UNCHANGED <<sessionVars, fsVars, written, tret>>

\* line 119
T_Exists(c) ==
  /\ pc[c] = "exists"
  /\ IF PathExists(dirState, files, md5(tref[c]))
     THEN /\ tret' = [tret EXCEPT ![c] = [exc |-> NoExc, id |-> md5(tref[c])]]
          /\ Goto(c, "done")
     ELSE /\ Goto(c, "exists_dir")
          /\ UNCHANGED tret
  /\ UNCHANGED <<sessionVars, fsVars, written, tref>>

\* line 122
T_ExistsDir(c) ==
  /\ pc[c] = "exists_dir"
  /\ Goto(c, IF dirState = "absent" THEN "mkdir" ELSE "isdir")
  /\ UNCHANGED <<sessionVars, fsVars, written, tref, tret>>

\* line 123: os.mkdir raises FileExistsError when the path exists by now
T_Mkdir(c) ==
  /\ pc[c] = "mkdir"
  /\ IF dirState = "absent"
     THEN /\ dirState' = "dir"
          /\ Goto(c, "isdir")
          /\ UNCHANGED tret
     ELSE /\ Raise(c, "FileExistsError")
          /\ UNCHANGED dirState
  /\ UNCHANGED <<sessionVars, files, written, tref>>

\* lines 125-126
T_IsDir(c) ==
  /\ pc[c] = "isdir"
  /\ IF dirState = "dir"
     THEN Goto(c, "get") /\ UNCHANGED tret
     ELSE Raise(c, "Exception")
  /\ UNCHANGED <<sessionVars, fsVars, written, tref>>

\* lines 128-129
T_Get(c) ==
  /\ pc[c] = "get"
  /\ Goto(c, "open")
  /\ UNCHANGED <<sessionVars, fsVars, written, tref, tret>>

\* line 131: open(imgPath, 'wb') creates the file or truncates it to nothing
T_Open(c) ==
  /\ pc[c] = "open"
  /\ files' = [files EXCEPT ![md5(tref[c])] = [exists |-> TRUE, data |-> <<>>]]
  /\ written' = [written EXCEPT ![c] = 0]
  /\ Goto(c, "copy")
  /\ UNCHANGED <<sessionVars, dirState, tref, tret>>

Hole == <<<<>>, 0>>

\* the file after chunk k was written at the caller's own offset
WriteAt(data, k, chunk) ==
  [i \in 1..(IF k > Len(data) THEN k ELSE Len(data)) |->
     IF i = k THEN chunk ELSE IF i <= Len(data) THEN data[i] ELSE Hole]

\* line 133: shutil.copyfileobj, one chunk at a time
T_Copy(c) ==
  /\ pc[c] = "copy"
  /\ written[c] < ImageLen
  /\ files' = [files EXCEPT ![md5(tref[c])].data =
                 WriteAt(@, written[c] + 1,
                         ServerImage(ImageUrl(tref[c]))[written[c] + 1])]
  /\ written' = [written EXCEPT ![c] = @ + 1]
  /\ UNCHANGED <<sessionVars, dirState, pc, tref, tret>>

\* line 135
T_Return(c) ==
  /\ pc[c] = "copy"
  /\ written[c] = ImageLen
  /\ tret' = [tret EXCEPT ![c] = [exc |-> NoExc, id |-> md5(tref[c])]]
  /\ Goto(c, "done")
  /\ UNCHANGED <<sessionVars, fsVars, written, tref>>

NextConc ==
  \E c \in Callers :
    \/ T_Enter(c)
    \/ T_Exists(c)
    \/ T_ExistsDir(c)
    \/ T_Mkdir(c)
    \/ T_IsDir(c)
    \/ T_Get(c)
    \/ T_Open(c)
    \/ T_Copy(c)
    \/ T_Return(c)

SpecConc == InitConc /\ [][NextConc]_vars

(***************************************************************************)
(* Decorators                                                              *)
(***************************************************************************)
Rpc(method, id) == [method |-> method, id |-> id]

\* lines 23-29: TRUE when the wrapped function is run
CheckServerValid(srv) == srv # "None"

\* what a decorator hands on: go says whether the wrapped function is called
Skip(ret, exc, calls) ==
  [go |-> FALSE, ret |-> ret, exc |-> exc, calls |-> calls, id |-> NoId]

Proceed(id, calls) ==
  [go |-> TRUE, ret |-> "None", exc |-> NoExc, calls |-> calls, id |-> id]

\* a resolver that lets the failed lookup of the first player escape
GetActivePlayer_NoCatch(srv, activePlayers, qfault) ==
  IF ~CheckServerValid(srv) THEN Skip("None", NoExc, <<>>)
  ELSE IF qfault \/ activePlayers = <<>>
       THEN Skip("None", IF qfault THEN "TransportError" ELSE "IndexError",
                 <<Rpc("Player.GetActivePlayers", NoId)>>)
       ELSE Proceed(activePlayers[1], <<Rpc("Player.GetActivePlayers", NoId)>>)

\* a resolver that keeps the player id of an earlier call once it has one
GetActivePlayer_Cached(srv, activePlayers, qfault) ==
  IF ~CheckServerValid(srv) THEN Skip("None", NoExc, <<>>)
  ELSE IF qfault \/ activePlayers = <<>>
       THEN Skip("{}", NoExc, <<Rpc("Player.GetActivePlayers", NoId)>>)
       ELSE Proceed(IF lastTarget # NoId THEN lastTarget ELSE activePlayers[1],
                    <<Rpc("Player.GetActivePlayers", NoId)>>)

\* lines 34-44.  activePlayers is the server's answer, qfault a failed query
GetActivePlayer(srv, activePlayers, qfault) ==
  IF ~CheckServerValid(srv) THEN Skip("None", NoExc, <<>>)
  ELSE IF qfault \/ activePlayers = <<>>
       THEN Skip("{}", NoExc, <<Rpc("Player.GetActivePlayers", NoId)>>)
       ELSE Proceed(activePlayers[1], <<Rpc("Player.GetActivePlayers", NoId)>>)

\* lines 53-55: the id of the last entry of the requested type; Unbound when
\* the loop never assigned playlist_id
ScanPlaylists(response, playlistType) ==
  LET hits == {i \in 1..Len(response) : response[i].type = playlistType}
  IN  IF hits = {} THEN Unbound
      ELSE response[CHOOSE i \in hits : \A j \in hits : j <= i].playlistid

\* lines 49-57.  A failed query is not caught; reading playlist_id when no
\* entry matched raises UnboundLocalError before the wrapped function is called
GetPlaylists(srv, response, playlistType, qfault) ==
  IF ~CheckServerValid(srv) THEN Skip("None", NoExc, <<>>)
  ELSE IF qfault
       THEN Skip("None", "TransportError", <<Rpc("Playlist.GetPlaylists", NoId)>>)
       ELSE IF ScanPlaylists(response, playlistType) = Unbound
            THEN Skip("None", "UnboundLocalError",
                      <<Rpc("Playlist.GetPlaylists", NoId)>>)
            ELSE Proceed(ScanPlaylists(response, playlistType),
                         <<Rpc("Playlist.GetPlaylists", NoId)>>)

(***************************************************************************)
(* Commands                                                                *)
(***************************************************************************)
\* decorated with @GetActivePlayer (lines 446-562)
PlayerCommands ==
  {"Player_GetItem", "Player_GetProperties", "Player_GoTo", "Player_Move",
   "Player_PlayPause", "Player_Rotate", "Player_Seek", "Player_SetAudioStream",
   "Player_SetPartymode", "Player_SetRepeat", "Player_SetShuffle",
   "Player_SetSpeed", "Player_SetSubtitle", "Player_Stop", "Player_Zoom"}

\* decorated with @GetPlaylists (lines 507-612)
PlaylistCommands ==
  {"Player_Open", "Playlist_Add", "Playlist_Clear", "Playlist_GetItems",
   "Playlist_Remove"}

\* decorated with @CheckServerValid (lines 175-441, 463, 600-616, 775-845)
CheckedCommands ==
  {"Status", "VideoLibrary_Clean", "VideoLibrary_Export",
   "VideoLibrary_GetEpisodeDetails", "VideoLibrary_GetEpisodes",
   "VideoLibrary_GetGenres", "VideoLibrary_GetMovieDetails",
   "VideoLibrary_GetMovieSetDetails", "VideoLibrary_GetMovieSets",
   "VideoLibrary_GetMovies", "VideoLibrary_GetMusicVideoDetails",
   "VideoLibrary_GetMusicVideos", "VideoLibrary_GetRecentlyAddedEpisodes",
   "VideoLibrary_GetRecentlyAddedMovies",
   "VideoLibrary_GetRecentlyAddedMusicVideos", "VideoLibrary_GetSeasonDetails",
   "VideoLibrary_GetSeasons", "VideoLibrary_GetTVShowDetails",
   "VideoLibrary_GetTVShows", "VideoLibrary_RemoveEpisode",
   "VideoLibrary_RemoveMovie", "VideoLibrary_RemoveMusicVideo",
   "VideoLibrary_RemoveTVShow", "VideoLibrary_Scan",
   "VideoLibrary_SetEpisodeDetails", "VideoLibrary_SetMovieDetails",
   "VideoLibrary_SetMovieSetDetails", "VideoLibrary_SetMusicVideoDetails",
   "VideoLibrary_SetSeasonDetails", "VideoLibrary_SetTVShowDetails",
   "Player_GetPlayers", "Playlist_GetProperties", "Playlist_Insert",
   "Playlist_Swap", "Favourites_AddFavourite", "Favourites_GetFavourites",
   "Application_GetProperties", "Application_Quit", "Application_SetMute",
   "Application_SetVolume", "System_EjectOpticalDrive", "System_GetProperties",
   "System_Hibernate", "System_Reboot", "System_Shutdown", "System_Suspend"}

\* not decorated (lines 621-770)
UncheckedCommands ==
  {"Files_GetDirectory", "Files_GetFileDetails", "Files_GetSources",
   "Files_PrepareDownload", "Addons_ExecuteAddon", "Addons_GetAddonDetails",
   "Addons_GetAddons", "Addons_SetAddonEnabled"}

\* the body is: raise NotImplementedError
NotImplemented ==
  {"VideoLibrary_Clean", "VideoLibrary_Export", "VideoLibrary_GetGenres",
   "VideoLibrary_GetMovieSetDetails", "VideoLibrary_GetMovieSets",
   "VideoLibrary_GetMusicVideoDetails", "VideoLibrary_GetMusicVideos",
   "VideoLibrary_GetRecentlyAddedMusicVideos", "VideoLibrary_GetSeasonDetails",
   "VideoLibrary_RemoveMusicVideo", "VideoLibrary_SetMovieSetDetails",
   "VideoLibrary_SetMusicVideoDetails", "VideoLibrary_SetSeasonDetails",
   "VideoLibrary_SetTVShowDetails", "Player_Move", "Player_Rotate",
   "Player_SetAudioStream", "Player_SetPartymode", "Player_SetRepeat",
   "Player_SetShuffle", "Player_Zoom", "Playlist_GetProperties",
   "Playlist_Insert", "Playlist_Swap", "Files_PrepareDownload",
   "Addons_SetAddonEnabled", "Favourites_AddFavourite",
   "System_EjectOpticalDrive", "System_GetProperties"}

\* the body returns the response, or one field of it
ReturnsValue ==
  {"Player_GetProperties", "Player_Open", "Player_PlayPause",
   "Addons_ExecuteAddon", "Application_GetProperties"}

\* the body returns records taken from the response under a key
ReturnsRecords ==
  {"VideoLibrary_GetEpisodeDetails", "VideoLibrary_GetEpisodes",
   "VideoLibrary_GetMovieDetails", "VideoLibrary_GetMovies",
   "VideoLibrary_GetRecentlyAddedEpisodes",
   "VideoLibrary_GetRecentlyAddedMovies", "VideoLibrary_GetSeasons",
   "VideoLibrary_GetTVShowDetails", "VideoLibrary_GetTVShows",
   "Player_GetItem", "Playlist_GetItems", "Files_GetDirectory",
   "Files_GetFileDetails", "Files_GetSources", "Addons_GetAddonDetails",
   "Addons_GetAddons", "Favourites_GetFavourites"}

\* ... one record, not a list of them
SingleRecord ==
  {"VideoLibrary_GetEpisodeDetails", "VideoLibrary_GetMovieDetails",
   "VideoLibrary_GetTVShowDetails", "Player_GetItem", "Files_GetFileDetails",
   "Addons_GetAddonDetails"}

\* ... with except KeyError: <result> = []
KeyErrorTolerant ==
  {"VideoLibrary_GetMovies", "VideoLibrary_GetRecentlyAddedMovies",
   "Playlist_GetItems", "Files_GetDirectory", "Files_GetFileDetails",
   "Files_GetSources", "Addons_GetAddonDetails", "Addons_GetAddons",
   "Favourites_GetFavourites"}

\* ... passed through self.ProcessThumbnails
ThumbCommands ==
  ReturnsRecords \ {"Files_GetDirectory", "Files_GetFileDetails",
                    "Files_GetSources", "Addons_GetAddons"}

\* ... passed through self.GetResumePercent
ResumeCommands ==
  {"VideoLibrary_GetEpisodeDetails", "VideoLibrary_GetEpisodes",
   "VideoLibrary_GetMovieDetails", "VideoLibrary_GetMovies",
   "VideoLibrary_GetSeasons", "VideoLibrary_GetTVShows"}

\* what the transport does during the body: fault is a failed call, haskey
\* whether the response has the key the body reads, resp the records under it
NoInput ==
  [fault |-> FALSE, haskey |-> TRUE, resp |-> <<>>, failAt |-> 0, fo |-> OkFetch]

Out(exc, ret, calls, ds, fl) ==
  [exc |-> exc, ret |-> ret, calls |-> calls, items |-> <<>>, dirState |-> ds,
   files |-> fl, ops |-> <<>>]

\* the return of a record command whose post-processing went as t and r say
Records(cmd, calls, t, r) ==
  IF t.exc # NoExc
  THEN [exc |-> t.exc, ret |-> "None", calls |-> calls, items |-> t.items,
        dirState |-> t.dirState, files |-> t.files, ops |-> t.ops]
  ELSE [exc |-> r.exc, ret |-> IF r.exc = NoExc THEN "records" ELSE "None",
        calls |-> calls, items |-> r.items, dirState |-> t.dirState,
        files |-> t.files, ops |-> t.ops]

NoThumbs(ds, fl, list) ==
  [items |-> list, exc |-> NoExc, dirState |-> ds, files |-> fl, ops |-> <<>>]

Resumed(cmd, t) ==
  IF cmd \in ResumeCommands /\ t.exc = NoExc
  THEN GetResumePercent(t.items)
  ELSE [items |-> t.items, exc |-> NoExc]

PostProcessed(cmd, calls, t) == Records(cmd, calls, t, Resumed(cmd, t))

\* the part of a body after the transport call
PostProcess(cmd, dir, au, ds, fl, calls, inp) ==
  IF ~inp.haskey
  THEN IF cmd \in KeyErrorTolerant THEN Out(NoExc, "[]", calls, ds, fl)
       ELSE Out("KeyError", "None", calls, ds, fl)
  ELSE PostProcessed(cmd, calls,
         IF cmd \in ThumbCommands
         THEN ProcessThumbnails(dir, au, ds, fl, inp.resp, inp.failAt, inp.fo)
         ELSE NoThumbs(ds, fl, inp.resp))

\* the body of a command (lines 175-845), id being the player or playlist id
\* the decorator passed in
Body(cmd, dir, au, ds, fl, id, inp) ==
  IF cmd \in NotImplemented
  THEN Out("NotImplementedError", "None", <<>>, ds, fl)
  ELSE IF cmd = "Status"
  THEN Out(NoExc, IF inp.fault THEN "Offline" ELSE "Online",
           <<Rpc("JSONRPC_Ping", NoId)>>, ds, fl)
  ELSE IF inp.fault THEN Out("TransportError", "None", <<Rpc(cmd, id)>>, ds, fl)
  ELSE IF cmd = "Player_GetPlayers"
  THEN IF inp.resp = <<>> THEN Out("IndexError", "None", <<Rpc(cmd, id)>>, ds, fl)
       ELSE Out(NoExc, "value", <<Rpc(cmd, id)>>, ds, fl)
  ELSE IF cmd \in ReturnsValue THEN Out(NoExc, "value", <<Rpc(cmd, id)>>, ds, fl)
  ELSE IF cmd \in ReturnsRecords
       THEN PostProcess(cmd, dir, au, ds, fl, <<Rpc(cmd, id)>>, inp)
       ELSE Out(NoExc, "None", <<Rpc(cmd, id)>>, ds, fl)

\* a decorated command: the decorator's own return, or the body's
Decorated(cmd, dir, au, ds, fl, d, inp) ==
  IF ~d.go THEN Out(d.exc, d.ret, d.calls, ds, fl)
  ELSE [Body(cmd, dir, au, ds, fl, d.id, inp) EXCEPT !.calls = d.calls \o @]

\* a command without decorator: self.server.<Namespace> on None raises
Undecorated(cmd, srv, dir, au, ds, fl, inp) ==
  IF cmd \in NotImplemented \/ srv # "None"
  THEN Body(cmd, dir, au, ds, fl, NoId, inp)
  ELSE Out("AttributeError", "None", <<>>, ds, fl)

(***************************************************************************)
(* The command layer                                                       *)
(***************************************************************************)
\* answers of the server to Player.GetActivePlayers: the active player ids
ActivePlayerResponses == {<<>>, <<0>>, <<1>>, <<1, 0>>}

Playlist(id, type) == [playlistid |-> id, type |-> type]

\* answers of the server to Playlist.GetPlaylists
PlaylistResponses ==
  { <<>>,
    <<Playlist(0, "audio"), Playlist(1, "video")>>,
    <<Playlist(0, "video"), Playlist(1, "audio")>>,
    <<Playlist(0, "audio")>>,
    <<Playlist(1, "video"), Playlist(2, "video")>> }

PlaylistTypes == {"audio", "video", "picture"}

Movie == Item(<<"a", ".", "j", "p", "g">>,
              [EmptyResume EXCEPT !.total = 2, !.position = 1], NoKey, NoKey)
Season == Item(<<>>, NoResume, 1, 2)
Broken == Item(<<>>, [EmptyResume EXCEPT !.position = 1], NoKey, NoKey)

CmdLists == {<<>>, <<Movie>>, <<Season>>, <<Season, Movie>>, <<Broken>>}

CmdFailures == {[kind |-> "get_fail", n |-> 0], [kind |-> "copy_fail", n |-> 0]}

RecordInputs ==
  {[NoInput EXCEPT !.haskey = FALSE]}
  \cup {[NoInput EXCEPT !.resp = l] : l \in CmdLists}
  \cup {[NoInput EXCEPT !.resp = l, !.failAt = Len(l), !.fo = f] :
          l \in {<<Movie>>, <<Season, Movie>>}, f \in CmdFailures}

BodyInputs(cmd) ==
  {NoInput, [NoInput EXCEPT !.fault = TRUE]}
  \cup (IF cmd \in SingleRecord THEN {i \in RecordInputs : Len(i.resp) = 1}
        ELSE IF cmd \in ReturnsRecords \cup {"Player_GetPlayers"}
             THEN RecordInputs ELSE {})

\* the call record of a command that went as o says
Done(cmd, inp, o) ==
  [Call(cmd) EXCEPT !.exc = o.exc, !.ret = o.ret, !.calls = o.calls,
                    !.inp = inp.resp, !.items = o.items, !.ops = o.ops,
                    !.fo = inp.fo]

Finish(cmd, inp, o, seen) ==
  /\ result' = [Done(cmd, inp, o) EXCEPT !.players = seen.players,
                  !.playlists = seen.playlists,
                  !.playlistType = seen.playlistType, !.qfault = seen.qfault]
  /\ dirState' = o.dirState
  /\ files' = o.files
  /\ resolved' = resolved \cup IdsOf(inp.resp, o.items)
  /\ UNCHANGED <<server, auth, cache_thumbnail_dir, callerVars, lastTarget>>

NothingSeen ==
  [players |-> <<>>, playlists |-> <<>>, playlistType |-> "", qfault |-> FALSE]

\* the inputs of a body matter only when the body is run
Relevant(go, inp) == go \/ inp = NoInput

CheckedCommand ==
  /\ Idle
  /\ \E cmd \in CheckedCommands :
       \E inp \in BodyInputs(cmd) :
         /\ Relevant(CheckServerValid(server), inp)
         /\ Finish(cmd, inp,
                   Decorated(cmd, cache_thumbnail_dir, auth, dirState, files,
                             IF CheckServerValid(server) THEN Proceed(NoId, <<>>)
                             ELSE Skip("None", NoExc, <<>>), inp),
                   NothingSeen)

PlayerCommand ==
  /\ Idle
  /\ \E cmd \in PlayerCommands, activePlayers \in ActivePlayerResponses,
        qfault \in BOOLEAN :
       \E inp \in BodyInputs(cmd) :
         /\ qfault => activePlayers = <<>>
         /\ Relevant(GetActivePlayer(server, activePlayers, qfault).go, inp)
         /\ Finish(cmd, inp,
                   Decorated(cmd, cache_thumbnail_dir, auth, dirState, files,
                             GetActivePlayer(server, activePlayers, qfault), inp),
                   [NothingSeen EXCEPT !.players = activePlayers,
                                       !.qfault = qfault])

PlaylistCommand ==
  /\ Idle
  /\ \E cmd \in PlaylistCommands, response \in PlaylistResponses,
        playlistType \in PlaylistTypes, qfault \in BOOLEAN :
       \E inp \in BodyInputs(cmd) :
         /\ qfault => response = <<>>
         /\ Relevant(GetPlaylists(server, response, playlistType, qfault).go, inp)
         /\ Finish(cmd, inp,
                   Decorated(cmd, cache_thumbnail_dir, auth, dirState, files,
                             GetPlaylists(server, response, playlistType, qfault),
                             inp),
                   [NothingSeen EXCEPT !.playlists = response,
                                       !.playlistType = playlistType,
                                       !.qfault = qfault])

UncheckedCommand ==
  /\ Idle
  /\ \E cmd \in UncheckedCommands :
       \E inp \in BodyInputs(cmd) :
         /\ Relevant(server # "None", inp)
         /\ Finish(cmd, inp,
                   Undecorated(cmd, server, cache_thumbnail_dir, auth, dirState,
                               files, inp),
                   NothingSeen)

Next ==
  \/ SetServer
  \/ SetThumbnailCache
  \/ CheckedCommand
  \/ PlayerCommand
  \/ PlaylistCommand
  \/ UncheckedCommand
  \/ Returned

Spec == Init /\ [][Next]_vars

(***************************************************************************)
(* The constructor with every combination of its arguments                 *)
(***************************************************************************)
\* a constructor argument is left at its default None or supplied
CtorArgs == {"None", "given"}

\* before KodiController(...) has run no attribute is assigned
InitCtor ==
  /\ server = "unset"
  /\ auth = "unset"
  /\ cache_thumbnail_dir = "unset"
  /\ dirState \in {"absent", "dir", "file"}
  /\ files = NoFiles
  /\ result = NoCall
  /\ resolved = {}
  /\ lastTarget = NoId
  /\ IdleCallers

\* the caller holds a controller: __init__ returned one
Constructed == server # "unset"

\* lines 75-81.  With the four server arguments supplied, line 81 calls the
\* name set_server, which neither the module nor the class defines: NameError
\* leaves __init__ after line 76, no controller is handed to the caller.
Construct ==
  /\ ~Constructed
  /\ \E dir \in {"None", "cache"}, host \in CtorArgs, port \in CtorArgs,
        user \in CtorArgs, pwd \in CtorArgs :
       /\ cache_thumbnail_dir' = dir
       /\ IF "None" \in {host, port, user, pwd}
          THEN /\ server' = "None"
               /\ result' = [Call("__init__") EXCEPT
                               !.arg = <<host, port, user, pwd>>]
          ELSE /\ server' = server
               /\ result' = [Call("__init__") EXCEPT
                               !.arg = <<host, port, user, pwd>>,
                               !.exc = "NameError"]
  /\ UNCHANGED <<auth, fsVars, resolved, callerVars, lastTarget>>

NextCtor ==
  \/ Construct
  \/ Constructed /\ Next

SpecCtor == InitCtor /\ [][NextCtor]_vars

(***************************************************************************)
(* Properties                                                             *)
(***************************************************************************)
Commands ==
  CheckedCommands \cup PlayerCommands \cup PlaylistCommands
  \cup UncheckedCommands

Methods(calls) == {calls[i].method : i \in 1..Len(calls)}

\* C1: on a bound session, a player command whose active-players query
\* fails or reports no player returns the empty result {}, raises nothing and
\* never invokes its own RPC.
C1_NoActivePlayerIsNoOp ==
  (/\ result.op \in PlayerCommands
   /\ server # "None"
   /\ (result.qfault \/ result.players = <<>>))
  => /\ result.exc = NoExc
     /\ result.ret = "{}"
     /\ Methods(result.calls) \cap Commands = {}
     /\ result.ops = <<>>

C1_Witness ==
  /\ result.op = "Player_Stop"
  /\ server # "None"
  /\ result.players = <<>>
  /\ ~result.qfault
  /\ result.ret = "{}"
  /\ result.calls = <<Rpc("Player.GetActivePlayers", NoId)>>

NoMatch(response, playlistType) ==
  \A i \in 1..Len(response) : response[i].type # playlistType

\* C2: a playlist command for a media type that no entry of the server's
\* playlist list has fails with a NotFound error, and its RPC is not invoked.
C2_NoMatchIsNotFound ==
  (/\ result.op \in PlaylistCommands
   /\ server # "None"
   /\ ~result.qfault
   /\ NoMatch(result.playlists, result.playlistType))
  => /\ result.exc = "NotFound"
     /\ Methods(result.calls) \cap Commands = {}

RaceName == md5(<<"a", ".", "j", "p", "g">>)
RaceImage == ServerImage(ImageUrl(<<"a", ".", "j", "p", "g">>))

\* C3: when two callers run GetThumbnail for the same uncached reference,
\* both return the digest without an error, and once both have finished
\* the cache holds the file with the complete image.
C3_RaceIsHarmless ==
  (\A c \in Callers : pc[c] = "done")
  => /\ \A c \in Callers : tret[c] = [exc |-> NoExc, id |-> RaceName]
     /\ dirState = "dir"
     /\ files[RaceName] = [exists |-> TRUE, data |-> RaceImage]

DownloadErrors == {"RequestException", "OSError", "IOError"}

\* C4: after a GetThumbnail whose download or write failed, no file is at the
\* digest path for a later call to take as a cache entry.
C4_FailureLeavesNoEntry ==
  (result.op = "GetThumbnail" /\ result.exc \in DownloadErrors)
  => ~PathExists(dirState, files, md5(strip(result.arg)))

\* C5: once a digest was returned for a reference under the cache directory,
\* a later GetThumbnail for it returns that digest, fetches nothing and leaves
\* the cache as it is.
C5_RepeatIsCacheHit ==
  [][\A r \in Refs :
       (/\ IsImageRef(r)
        /\ md5(strip(r)) \in resolved
        /\ result'.op = "GetThumbnail"
        /\ result'.arg = r)
       => /\ result'.exc = NoExc
          /\ result'.id = md5(strip(r))
          /\ result'.ops = <<"exists">>
          /\ files' = files
          /\ dirState' = dirState]_vars

C5_Witness ==
  /\ result.op = "GetThumbnail"
  /\ result.id \in resolved
  /\ result.ops = <<"exists">>
  /\ files[result.id].data = ServerImage(ImageUrl(strip(result.arg)))

\* C6: a GetThumbnail for an image reference that is not in the cache, with a
\* download that succeeds, returns the digest and leaves a file of that name
\* holding exactly the fetched bytes, in a cache directory that now exists.
C6_MissStoresImage ==
  [][\A r \in Refs :
       (/\ IsImageRef(r)
        /\ cache_thumbnail_dir # "None"
        /\ auth = "set"
        /\ dirState # "file"
        /\ ~PathExists(dirState, files, md5(strip(r)))
        /\ result'.op = "GetThumbnail"
        /\ result'.arg = r
        /\ result'.fo = OkFetch)
       => /\ result'.exc = NoExc
          /\ result'.id = md5(strip(r))
          /\ dirState' = "dir"
          /\ files'[md5(strip(r))] =
               [exists |-> TRUE, data |-> ServerImage(ImageUrl(strip(r)))]]_vars

C6_Witness ==
  /\ result.op = "GetThumbnail"
  /\ result.arg = <<"/", "a", ".", "j", "p", "g", "/">>
  /\ result.ops = <<"exists", "exists_dir", "mkdir", "isdir", "get", "open", "write">>
  /\ result.id = md5(<<"a", ".", "j", "p", "g">>)
  /\ dirState = "dir"
  /\ files[result.id].data = ServerImage(ImageUrl(<<"a", ".", "j", "p", "g">>))

\* C7: GetThumbnail for a reference without a recognized image extension
\* returns the empty identifier and performs no filesystem or network
\* operation.
C7_NonImageIsEmpty ==
  (result.op = "GetThumbnail" /\ ~IsImageRef(result.arg))
  => /\ result.exc = NoExc
     /\ result.id = EmptyId
     /\ result.ops = <<>>

HasResumeData(item) ==
  item.resume.present /\ item.resume.total # NoKey /\ item.resume.position # NoKey

HasCounters(item) ==
  ~item.resume.present /\ item.watchedepisodes # NoKey /\ item.episode # NoKey

\* the fraction p is 0 when total is 0 and 100 * current / total otherwise
PctIs(p, current, total) ==
  /\ p.den # 0
  /\ IF total = 0 THEN p.num = 0 ELSE p.num * total = 100 * current * p.den

ExpectedPct(p, item) ==
  IF item.resume.present
  THEN PctIs(p, item.resume.position, item.resume.total)
  ELSE PctIs(p, item.watchedepisodes, item.episode)

\* C8: GetResumePercent sets resume.percentage of a record to 0 when the
\* total is 0 and to 100 * current / total otherwise, with (position, total)
\* of the resume sub-object or else (watchedepisodes, episode); a total of 0
\* raises nothing.
C8_PercentOfProgress ==
  result.op = "GetResumePercent"
  => \A i \in 1..Len(result.inp) :
       (\A j \in 1..i : HasResumeData(result.inp[j]) \/ HasCounters(result.inp[j]))
       => /\ result.items[i].resume.present
          /\ ExpectedPct(result.items[i].resume.percentage, result.inp[i])
          /\ i = Len(result.inp) => result.exc = NoExc

C8_Witness ==
  /\ result.op = "GetResumePercent"
  /\ Len(result.inp) = 2
  /\ HasCounters(result.inp[1])
  /\ result.inp[1].episode = 2 /\ result.inp[1].watchedepisodes = 1
  /\ result.items[1].resume.percentage = [num |-> 100, den |-> 2]
  /\ HasResumeData(result.inp[2])
  /\ result.inp[2].resume.total = 0 /\ result.inp[2].resume.position = 1
  /\ result.items[2].resume.percentage.num = 0
  /\ result.exc = NoExc

\* C9: GetResumePercent raises for no record shape, and leaves every record
\* with a resume sub-object that has a percentage, 0 when the record has no
\* progress data.
C9_MalformedIsAbsorbed ==
  result.op = "GetResumePercent"
  => /\ result.exc = NoExc
     /\ \A i \in 1..Len(result.inp) :
          /\ result.items[i].resume.present
          /\ result.items[i].resume.percentage.den # 0
          /\ ~(HasResumeData(result.inp[i]) \/ HasCounters(result.inp[i]))
             => result.items[i].resume.percentage.num = 0

\* C10: every command called on a session without server returns None, makes
\* no transport call and raises nothing.
C10_UnboundIsNoOp ==
  (result.op \in Commands /\ server = "None")
  => /\ result.exc = NoExc
     /\ result.ret = "None"
     /\ result.calls = <<>>

AllSupplied(args) == \A i \in 1..Len(args) : args[i] # "None"

\* C11: constructing the controller with host, port, user and password all
\* supplied raises nothing and leaves it bound as SetServer does; with any of
\* the four missing it raises nothing and leaves the controller without server.
C11_ConstructedBoundOrUnbound ==
  result.op = "__init__"
  => /\ result.exc = NoExc
     /\ IF AllSupplied(result.arg)
        THEN server = "Client" /\ auth = "set"
        ELSE server = "None"

FetchOps == {"mkdir", "get", "open", "write"}

OpsOf(ops) == {ops[i] : i \in 1..Len(ops)}

\* C12: on a session with server set, GetThumbnail for an image reference
\* while a non-directory is at the configured cache path raises the
\* cache-directory error to the caller, without creating a directory,
\* requesting the image or opening or writing a file.
C12_InvalidCacheDirIsError ==
  [][\A r \in Refs :
       (/\ IsImageRef(r)
        /\ cache_thumbnail_dir # "None"
        /\ auth = "set"
        /\ dirState = "file"
        /\ result'.op = "GetThumbnail"
        /\ result'.arg = r)
       => /\ result'.exc = "Exception"
          /\ result'.id = EmptyId
          /\ OpsOf(result'.ops) \cap FetchOps = {}
          /\ files' = files
          /\ dirState' = "file"]_vars

C12_Witness ==
  /\ result.op = "GetThumbnail"
  /\ result.arg = <<"b", ".", "p", "n", "g">>
  /\ auth = "set"
  /\ dirState = "file"
  /\ result.exc = "Exception"
  /\ result.ops = <<"exists", "exists_dir", "isdir">>
  /\ files = NoFiles

\* what GetThumbnail returns for a reference when nothing fails
ResolvedId(r) == IF IsImageRef(r) THEN md5(strip(r)) ELSE EmptyId

\* C13: with no cache directory configured, ProcessThumbnails raises nothing,
\* leaves every record as it was passed in and makes no filesystem or network
\* operation; with a cache directory configured, a ProcessThumbnails that
\* returns has replaced the thumbnail field of every record by the digest of
\* an image reference or by the empty string, and nothing else of the record.
C13_ThumbnailsKeptWithoutCache ==
  [][result'.op = "ProcessThumbnails"
     => IF cache_thumbnail_dir = "None"
        THEN /\ result'.exc = NoExc
             /\ result'.items = result'.inp
             /\ result'.ops = <<>>
             /\ files' = files
             /\ dirState' = dirState
        ELSE result'.exc = NoExc
             => /\ Len(result'.items) = Len(result'.inp)
                /\ \A i \in 1..Len(result'.inp) :
                     result'.items[i] =
                       [result'.inp[i] EXCEPT
                          !.thumbnail = ResolvedId(result'.inp[i].thumbnail)]]_vars

\* the cache holds an image of an earlier call, the directory setting has been
\* taken away since, and the records come back as they went in
C13_Witness ==
  /\ result.op = "ProcessThumbnails"
  /\ cache_thumbnail_dir = "None"
  /\ files[md5(<<"a", ".", "j", "p", "g">>)].exists
  /\ result.inp = <<Thumb(<<"a", ".", "j", "p", "g">>),
                    Thumb(<<"a", ".", "g", "i", "f">>)>>
  /\ result.items = result.inp
  /\ result.ops = <<>>
  /\ result.exc = NoExc

\* the command's own transport call was made
Invoked(r) == r.op \in Methods(r.calls)

\* the ids the playlist list has for a media type
IdsOfType(response, playlistType) ==
  {response[i].playlistid :
     i \in {j \in 1..Len(response) : response[j].type = playlistType}}

\* C14: on a bound session every player or playlist command starts with its
\* own resolution query, and when it invokes its RPC it does so right after
\* that query with an id of that same answer: the first active player in the
\* order the server reported, or a playlist of the requested type; whatever
\* id an earlier command used plays no part.
C14_ResolvedOnEveryCall ==
  /\ (result.op \in PlayerCommands /\ server # "None")
     => /\ result.calls # <<>>
        /\ result.calls[1] = Rpc("Player.GetActivePlayers", NoId)
        /\ Invoked(result)
           => /\ result.players # <<>>
              /\ result.calls = <<Rpc("Player.GetActivePlayers", NoId),
                                  Rpc(result.op, result.players[1])>>
  /\ (result.op \in PlaylistCommands /\ server # "None")
     => /\ result.calls # <<>>
        /\ result.calls[1] = Rpc("Playlist.GetPlaylists", NoId)
        /\ Invoked(result)
           => /\ Len(result.calls) = 2
              /\ result.calls[2].method = result.op
              /\ result.calls[2].id
                   \in IdsOfType(result.playlists, result.playlistType)

\* an earlier command used player 0; the server now reports 1 before 0 and
\* the command goes to player 1
C14_Witness ==
  /\ lastTarget = 0
  /\ result.op = "Player_Stop"
  /\ result.players = <<1, 0>>
  /\ result.calls = <<Rpc("Player.GetActivePlayers", NoId),
                      Rpc("Player_Stop", 1)>>

\* resumeList in the order perm puts it
Permuted(resumeList, perm) == [j \in 1..Len(resumeList) |-> resumeList[perm[j]]]

\* C15: what GetResumePercent leaves in a record depends on that record
\* only: it is what the record gets when it is passed alone, and what it
\* gets in every other order of the same list.
C15_OrderIndependent ==
  result.op = "GetResumePercent"
  => /\ \A i \in 1..Len(result.inp) :
          result.items[i] = GetResumePercent(<<result.inp[i]>>).items[1]
     /\ \A perm \in Permutations(1..Len(result.inp)) :
          \A j \in 1..Len(result.inp) :
            GetResumePercent(Permuted(result.inp, perm)).items[j]
              = result.items[perm[j]]

\* C16: no operation of the controller, called one after the other, removes
\* the cache directory or deletes or changes a file that is in the cache,
\* complete or not; a GetThumbnail for a reference whose file is there does
\* not open or write it.
C16_CacheIsAppendOnly ==
  [][/\ \A name \in CacheNames :
          files[name].exists
          => dirState' = "dir" /\ files'[name] = files[name]
     /\ \A r \in Refs :
          (/\ IsImageRef(r)
           /\ files[md5(strip(r))].exists
           /\ result'.op = "GetThumbnail"
           /\ result'.arg = r)
          => OpsOf(result'.ops) \cap FetchOps = {}]_vars

\* the image of a.jpg is in the cache, complete, and stays so while a later
\* call stores the image of b.png next to it
C16_Witness ==
  /\ result.op = "GetThumbnail"
  /\ result.arg = <<"b", ".", "p", "n", "g">>
  /\ result.ops = <<"exists", "exists_dir", "isdir", "get", "open", "write">>
  /\ result.exc = NoExc
  /\ md5(<<"a", ".", "j", "p", "g">>) \in resolved
  /\ files[md5(<<"a", ".", "j", "p", "g">>)] =
       [exists |-> TRUE,
        data |-> ServerImage(ImageUrl(<<"a", ".", "j", "p", "g">>))]
  /\ files[md5(<<"b", ".", "p", "n", "g">>)].exists

====
